---------------------------- MODULE Spec2Model ----------------------------
(***************************************************************************)
(* A model of the CHIP-8 emulator of src/src/app.c: struct emulator, the   *)
(* rom loader, the input handler, emulation_cycle with every instruction   *)
(* handler, the timer tick, and the host loop of main.                     *)
(*                                                                         *)
(* Conventions.  The two large arrays are held by their nonzero cells:     *)
(* `memory` is the function from the addresses of the nonzero bytes to     *)
(* those bytes (every other byte of memory[4096] is 0, read with Mem), and *)
(* `gfx` is the set of the cells that hold 0xFFFFFFFF (every other cell of *)
(* gfx[2048] holds 0; no other value is ever stored).  An access outside   *)
(* an array of struct emulator is undefined behaviour in C: the model      *)
(* records which array was left in `fault`, moves the host to "undefined"  *)
(* and says nothing more about the run, so that no property is ever        *)
(* asserted of what the build did next.                                    *)
(***************************************************************************)
EXTENDS Integers, Sequences, FiniteSets, TLC

(***************************************************************************)
(* Program constants.                                                      *)
(***************************************************************************)
MEMORY_SIZE == 4096
RENDER_BUFFER_WIDTH == 64
RENDER_BUFFER_HEIGHT == 32
ROM_BASE == 512
FONT_BASE == 80
STACK_SIZE == 16
NUM_KEYS == 16
SPRITE_WIDTH == 8

GfxSize == RENDER_BUFFER_WIDTH * RENDER_BUFFER_HEIGHT
Byte == 0 .. 255
U8(n) == n % 256
U16(n) == n % 65536

\* available_memory taken as 0x1000 - 0x200
available_memory_whole == MEMORY_SIZE - ROM_BASE

\* u32 available_memory = 0xFFF - 0x200
available_memory == 4095 - ROM_BASE

font_set ==
  << 240, 144, 144, 144, 240,   32,  96,  32,  32, 112,
     240,  16, 240, 128, 240,  240,  16, 240,  16, 240,
     144, 144, 240,  16,  16,  240, 128, 240,  16, 240,
     240, 128, 240, 144, 240,  240,  16,  32,  64,  64,
     240, 144, 240, 144, 240,  240, 144, 240,  16, 240,
     240, 144, 240, 144, 144,  224, 144, 224, 144, 224,
     240, 128, 128, 128, 240,  224, 144, 144, 144, 224,
     240, 128, 240, 128, 240,  240, 128, 240, 128, 128 >>

(***************************************************************************)
(* Bit operations on naturals, as C's &, |, ^ on unsigned operands.        *)
(***************************************************************************)
RECURSIVE BitAnd(_, _)
BitAnd(a, b) ==
  IF a = 0 \/ b = 0 THEN 0
  ELSE (a % 2) * (b % 2) + 2 * BitAnd(a \div 2, b \div 2)

RECURSIVE BitOr(_, _)
BitOr(a, b) ==
  IF a = 0 THEN b
  ELSE IF b = 0 THEN a
  ELSE (IF a % 2 = 1 \/ b % 2 = 1 THEN 1 ELSE 0) + 2 * BitOr(a \div 2, b \div 2)

RECURSIVE BitXor(_, _)
BitXor(a, b) ==
  IF a = 0 THEN b
  ELSE IF b = 0 THEN a
  ELSE (((a % 2) + (b % 2)) % 2) + 2 * BitXor(a \div 2, b \div 2)

(***************************************************************************)
(* Opcode fields.                                                          *)
(***************************************************************************)
\* opcode & 0xF000, as the class digit
OpClass(opcode) == opcode \div 4096
\* #define VX(__opcode) ((__opcode & 0x0F00) >> 8)
VX(opcode) == (opcode \div 256) % 16
\* #define VY(__opcode) ((__opcode & 0x00F0) >> 4)
VY(opcode) == (opcode \div 16) % 16
\* opcode & 0x000F
OpN(opcode) == opcode % 16
\* opcode & 0x00FF
OpNN(opcode) == opcode % 256
\* opcode & 0x0FFF
OpNNN(opcode) == opcode % 4096

(***************************************************************************)
(* struct emulator after `struct emulator emu = {0}` and init ().          *)
(***************************************************************************)
\* memory[a], for a in 0 .. 4095
Mem(e, a) == IF a \in DOMAIN e.memory THEN e.memory[a] ELSE 0

\* The array m after the stores w (a function from addresses to bytes).
MemWrite(m, w) ==
  [a \in ((DOMAIN m) \ (DOMAIN w)) \cup { b \in DOMAIN w : w[b] # 0 } |->
     IF a \in DOMAIN w THEN w[a] ELSE m[a]]

InitEmu ==
  [ memory |-> [a \in FONT_BASE .. FONT_BASE + 79 |-> font_set[a - FONT_BASE + 1]],
    rom_size |-> 0,
    registers |-> [r \in 0 .. 15 |-> 0],
    index_register |-> 0,
    program_counter |-> ROM_BASE,
    gfx |-> {},
    draw_flag |-> FALSE,
    delay_timer |-> 0,
    sound_timer |-> 0,
    stack |-> [s \in 0 .. STACK_SIZE - 1 |-> 0],
    stack_ptr |-> 0,
    keys |-> [k \in 0 .. NUM_KEYS - 1 |-> 0] ]

(***************************************************************************)
(* emulation_cycle: the instruction handlers.  Each takes the emulator     *)
(* record before the instruction and gives the record after it; none is    *)
(* applied to a state in which the instruction would leave an array        *)
(* (see Fault).                                                            *)
(***************************************************************************)
\* emu->program_counter += n, on a u16
Advance(e, n) == [e EXCEPT !.program_counter = U16(@ + n)]

SetReg(e, r, v) == [e EXCEPT !.registers = [@ EXCEPT ![r] = v]]

\* u16 opcode = memory[pc] << 8 | memory[pc + 1]
Fetch(e) ==
  (Mem(e, e.program_counter) * 256) + Mem(e, e.program_counter + 1)

\* an unrecognised secondary code: printf only
Op_Unknown(e, opcode) == e

\* Op_00E0 clearing only the first row of the framebuffer.
Op_00E0_firstrow(e, opcode) ==
  Advance([e EXCEPT !.gfx = { c \in @ : c >= RENDER_BUFFER_WIDTH },
                    !.draw_flag = TRUE], 2)

Op_00E0(e, opcode) ==
  Advance([e EXCEPT !.gfx = {}, !.draw_flag = TRUE], 2)

\* Op_00EE resuming one byte past the saved address instead of two.
Op_00EE_plus1(e, opcode) ==
  LET sp == U16(e.stack_ptr - 1)
      address == e.stack[sp]
  IN  [e EXCEPT !.stack_ptr = sp, !.program_counter = U16(address + 1)]

Op_00EE(e, opcode) ==
  LET sp == U16(e.stack_ptr - 1)
      address == e.stack[sp]
  IN  [e EXCEPT !.stack_ptr = sp, !.program_counter = U16(address + 2)]

Op_1NNN(e, opcode) == [e EXCEPT !.program_counter = OpNNN(opcode)]

\* Op_2NNN saving the address of the next instruction instead of its own.
Op_2NNN_pushnext(e, opcode) ==
  [e EXCEPT !.stack = [@ EXCEPT ![e.stack_ptr] = U16(e.program_counter + 2)],
            !.stack_ptr = U16(@ + 1),
            !.program_counter = OpNNN(opcode)]

Op_2NNN(e, opcode) ==
  [e EXCEPT !.stack = [@ EXCEPT ![e.stack_ptr] = e.program_counter],
            !.stack_ptr = U16(@ + 1),
            !.program_counter = OpNNN(opcode)]

Op_3XNN(e, opcode) ==
  IF e.registers[VX(opcode)] = OpNN(opcode) THEN Advance(e, 4) ELSE Advance(e, 2)

Op_4XNN(e, opcode) ==
  IF e.registers[VX(opcode)] # OpNN(opcode) THEN Advance(e, 4) ELSE Advance(e, 2)

Op_5XY0(e, opcode) ==
  IF e.registers[VX(opcode)] = e.registers[VY(opcode)]
  THEN Advance(e, 4) ELSE Advance(e, 2)

Op_6XNN(e, opcode) == Advance(SetReg(e, VX(opcode), OpNN(opcode)), 2)

\* Op_7XNN storing the carry in register 0xF.
Op_7XNN_carry(e, opcode) ==
  LET sum == e.registers[VX(opcode)] + OpNN(opcode)
      f   == SetReg(e, 15, IF sum > 255 THEN 1 ELSE 0)
  IN  Advance(SetReg(f, VX(opcode), U8(sum)), 2)

Op_7XNN(e, opcode) ==
  Advance(SetReg(e, VX(opcode), U8(e.registers[VX(opcode)] + OpNN(opcode))), 2)

Op_8XY0(e, opcode) == Advance(SetReg(e, VX(opcode), e.registers[VY(opcode)]), 2)

Op_8XY1(e, opcode) ==
  Advance(SetReg(e, VX(opcode),
                 BitOr(e.registers[VX(opcode)], e.registers[VY(opcode)])), 2)

Op_8XY2(e, opcode) ==
  Advance(SetReg(e, VX(opcode),
                 BitAnd(e.registers[VX(opcode)], e.registers[VY(opcode)])), 2)

Op_8XY3(e, opcode) ==
  Advance(SetReg(e, VX(opcode),
                 BitXor(e.registers[VX(opcode)], e.registers[VY(opcode)])), 2)

\* vx and vy are read first; the flag is stored; then registers[X] += vy
\* reads registers[X] again, so with X = 0xF it adds to the flag just stored
Op_8XY4(e, opcode) ==
  LET vx == e.registers[VX(opcode)]
      vy == e.registers[VY(opcode)]
      f  == SetReg(e, 15, IF vy > vx THEN 1 ELSE 0)
  IN  Advance(SetReg(f, VX(opcode), U8(f.registers[VX(opcode)] + vy)), 2)

\* Op_8XY5 with the flag the other way round: 1 on borrow.
Op_8XY5_borrow1(e, opcode) ==
  LET vx == e.registers[VX(opcode)]
      vy == e.registers[VY(opcode)]
      f  == SetReg(e, 15, IF vy > vx THEN 1 ELSE 0)
  IN  Advance(SetReg(f, VX(opcode), U8(f.registers[VX(opcode)] - vy)), 2)

Op_8XY5(e, opcode) ==
  LET vx == e.registers[VX(opcode)]
      vy == e.registers[VY(opcode)]
      f  == SetReg(e, 15, IF vy > vx THEN 0 ELSE 1)
  IN  Advance(SetReg(f, VX(opcode), U8(f.registers[VX(opcode)] - vy)), 2)

Op_8XY6(e, opcode) ==
  LET vx == e.registers[VX(opcode)]
      f  == SetReg(e, 15, vx % 2)
  IN  Advance(SetReg(f, VX(opcode), f.registers[VX(opcode)] \div 2), 2)

Op_8XY7(e, opcode) ==
  LET vx == e.registers[VX(opcode)]
      vy == e.registers[VY(opcode)]
      f  == SetReg(e, 15, IF vx > vy THEN 0 ELSE 1)
  IN  Advance(SetReg(f, VX(opcode), U8(vy - vx)), 2)

Op_8XYE(e, opcode) ==
  LET f == SetReg(e, 15, e.registers[VX(opcode)] \div 128)
  IN  Advance(SetReg(f, VX(opcode), U8(f.registers[VX(opcode)] * 2)), 2)

Op_9XY0(e, opcode) ==
  IF e.registers[VX(opcode)] # e.registers[VY(opcode)]
  THEN Advance(e, 4) ELSE Advance(e, 2)

Op_ANNN(e, opcode) == Advance([e EXCEPT !.index_register = OpNNN(opcode)], 2)

Op_BNNN(e, opcode) ==
  [e EXCEPT !.program_counter = U16(OpNNN(opcode) + e.registers[0])]

\* r is the value rand () returned
Op_CXNN(e, opcode, r) ==
  Advance(SetReg(e, VX(opcode), BitAnd(r % 255, OpNN(opcode))), 2)

(***************************************************************************)
(* DXYN.  vx and vy are the register values; the wrapped x and y of lines  *)
(* 556-557 are shadowed by the loop variables and never used.              *)
(***************************************************************************)
\* u32 dest_x = (vx + x > 64 ? 64 : vx + x)
DestX(vx, x) == IF vx + x > 64 THEN 64 ELSE vx + x
\* u32 dest_y = (vy + y > 32 ? 32 : vy + y)
DestY(vy, y) == IF vy + y > 32 THEN 32 ELSE vy + y
\* u32 dest_pixel = (dest_y * 64) + dest_x
DestPixel(vx, vy, x, y) == (DestY(vy, y) * 64) + DestX(vx, x)

\* u8 row = memory[index_register + y]; u8 col = row & (0x80 >> x)
SpriteCol(e, x, y) == BitAnd(Mem(e, e.index_register + y), 128 \div (2 ^ x))

\* DrawLoop with the toggle replaced by a store: gfx[p] = 0xFFFFFFFF.
RECURSIVE DrawLoopStore(_, _, _, _, _, _)
DrawLoopStore(e, vx, vy, height, k, acc) ==
  IF k >= height * SPRITE_WIDTH THEN acc
  ELSE LET y == k \div SPRITE_WIDTH
           x == k % SPRITE_WIDTH
       IN  IF SpriteCol(e, x, y) = 0
           THEN DrawLoopStore(e, vx, vy, height, k + 1, acc)
           ELSE LET p == DestPixel(vx, vy, x, y)
                IN  DrawLoopStore(e, vx, vy, height, k + 1,
                      [ gfx |-> acc.gfx \cup {p},
                        vf  |-> IF p \in acc.gfx THEN 1 ELSE acc.vf ])

\* The two nested loops, k = y * 8 + x; acc is the framebuffer and the flag.
\* if (gfx[p] == 0xFFFFFFFF) registers[0xF] = 1; gfx[p] ^= 0xFFFFFFFF;
RECURSIVE DrawLoop(_, _, _, _, _, _)
DrawLoop(e, vx, vy, height, k, acc) ==
  IF k >= height * SPRITE_WIDTH THEN acc
  ELSE LET y == k \div SPRITE_WIDTH
           x == k % SPRITE_WIDTH
       IN  IF SpriteCol(e, x, y) = 0
           THEN DrawLoop(e, vx, vy, height, k + 1, acc)
           ELSE LET p == DestPixel(vx, vy, x, y)
                IN  DrawLoop(e, vx, vy, height, k + 1,
                      [ gfx |-> IF p \in acc.gfx THEN acc.gfx \ {p}
                                              ELSE acc.gfx \cup {p},
                        vf  |-> IF p \in acc.gfx THEN 1 ELSE acc.vf ])

\* Op_DXYN without `registers[0xF] = 0` before the loops.
Op_DXYN_noreset(e, opcode) ==
  LET vx == e.registers[VX(opcode)]
      vy == e.registers[VY(opcode)]
      r  == DrawLoop(e, vx, vy, OpN(opcode), 0,
                     [gfx |-> e.gfx, vf |-> e.registers[15]])
  IN  Advance([SetReg(e, 15, r.vf) EXCEPT !.gfx = r.gfx, !.draw_flag = TRUE], 2)

Op_DXYN(e, opcode) ==
  LET vx == e.registers[VX(opcode)]
      vy == e.registers[VY(opcode)]
      r  == DrawLoop(e, vx, vy, OpN(opcode), 0, [gfx |-> e.gfx, vf |-> 0])
  IN  Advance([SetReg(e, 15, r.vf) EXCEPT !.gfx = r.gfx, !.draw_flag = TRUE], 2)

\* The sprite rows DXYN reads, and the <<dest_x, dest_y>> of every set bit.
SpriteRows(e, opcode) == { e.index_register + y : y \in 0 .. OpN(opcode) - 1 }

DrawDests(e, opcode) ==
  LET vx == e.registers[VX(opcode)]
      vy == e.registers[VY(opcode)]
  IN  { <<DestX(vx, x), DestY(vy, y)>> :
          <<x, y>> \in { xy \in (0 .. SPRITE_WIDTH - 1) \X (0 .. OpN(opcode) - 1) :
                           /\ e.index_register + xy[2] < MEMORY_SIZE
                           /\ SpriteCol(e, xy[1], xy[2]) # 0 } }

(***************************************************************************)
(* Classes 0xE and 0xF.                                                    *)
(***************************************************************************)
Op_EX9E(e, opcode) ==
  IF e.keys[e.registers[VX(opcode)]] # 0 THEN Advance(e, 4) ELSE Advance(e, 2)

Op_EXA1(e, opcode) ==
  IF e.keys[e.registers[VX(opcode)]] = 0 THEN Advance(e, 4) ELSE Advance(e, 2)

Op_FX07(e, opcode) == Advance(SetReg(e, VX(opcode), e.delay_timer), 2)

\* for (i = 0; i < sizeof (keys); i++) if (keys[i] != 0) { registers[X] = i;
\* key_pressed = true; }   -- no break
\* WaitKeyLoop leaving the loop at the first held key.
RECURSIVE WaitKeyLoopBreak(_, _, _, _)
WaitKeyLoopBreak(e, opcode, i, acc) ==
  IF i >= NUM_KEYS \/ acc.key_pressed THEN acc
  ELSE WaitKeyLoopBreak(e, opcode, i + 1,
         IF e.keys[i] # 0
         THEN [ registers |-> [acc.registers EXCEPT ![VX(opcode)] = i],
                key_pressed |-> TRUE ]
         ELSE acc)

RECURSIVE WaitKeyLoop(_, _, _, _)
WaitKeyLoop(e, opcode, i, acc) ==
  IF i >= NUM_KEYS THEN acc
  ELSE WaitKeyLoop(e, opcode, i + 1,
         IF e.keys[i] # 0
         THEN [ registers |-> [acc.registers EXCEPT ![VX(opcode)] = i],
                key_pressed |-> TRUE ]
         ELSE acc)

WaitKey(e, opcode) ==
  WaitKeyLoop(e, opcode, 0, [registers |-> e.registers, key_pressed |-> FALSE])

Op_FX0A(e, opcode) ==
  LET r == WaitKey(e, opcode)
  IN  IF r.key_pressed
      THEN Advance([e EXCEPT !.registers = r.registers], 2)
      ELSE e

Op_FX15(e, opcode) ==
  Advance([e EXCEPT !.delay_timer = e.registers[VX(opcode)]], 2)

Op_FX18(e, opcode) ==
  Advance([e EXCEPT !.sound_timer = e.registers[VX(opcode)]], 2)

\* Op_FX1E keeping index_register within 12 bits.
Op_FX1E_masked(e, opcode) ==
  LET vx == e.registers[VX(opcode)]
      f  == SetReg(e, 15, IF e.index_register + vx > 4095 THEN 1 ELSE 0)
  IN  Advance([f EXCEPT !.index_register = (@ + vx) % 4096], 2)

Op_FX1E(e, opcode) ==
  LET vx == e.registers[VX(opcode)]
      f  == SetReg(e, 15, IF e.index_register + vx > 4095 THEN 1 ELSE 0)
  IN  Advance([f EXCEPT !.index_register = U16(@ + vx)], 2)

Op_FX29(e, opcode) ==
  Advance([e EXCEPT !.index_register = FONT_BASE + (e.registers[VX(opcode)] * 5)], 2)

Op_FX33(e, opcode) ==
  LET I  == e.index_register
      vx == e.registers[VX(opcode)]
  IN  Advance([e EXCEPT !.memory =
                 MemWrite(@, [a \in I .. I + 2 |->
                                CASE a = I     -> vx \div 100
                                  [] a = I + 1 -> (vx \div 10) % 10
                                  [] OTHER     -> (vx % 100) % 10])], 2)

\* Op_FX55 leaving index_register past the bytes written: I += X + 1.
Op_FX55_incr(e, opcode) ==
  LET I == e.index_register
  IN  Advance([e EXCEPT !.memory =
                 MemWrite(@, [a \in I .. I + VX(opcode) |-> e.registers[a - I]]),
                        !.index_register = U16(I + VX(opcode) + 1)], 2)

Op_FX55(e, opcode) ==
  LET I == e.index_register
  IN  Advance([e EXCEPT !.memory =
                 MemWrite(@, [a \in I .. I + VX(opcode) |-> e.registers[a - I]])], 2)

Op_FX65(e, opcode) ==
  LET I == e.index_register
  IN  Advance([e EXCEPT !.registers =
                 [r \in 0 .. 15 |->
                    IF r <= VX(opcode) THEN Mem(e, I + r) ELSE @[r]]], 2)

(***************************************************************************)
(* The dispatch of emulation_cycle, the early return of FX0A, and the      *)
(* timer tick that ends every cycle that did not return early.             *)
(***************************************************************************)
Execute(e, opcode, r) ==
  LET lo == OpNN(opcode)
      n  == OpN(opcode)
  IN  CASE OpClass(opcode) = 0 ->
             (CASE lo = 224 -> Op_00E0(e, opcode)
                [] lo = 238 -> Op_00EE(e, opcode)
                [] OTHER    -> Op_Unknown(e, opcode))
        [] OpClass(opcode) = 1 -> Op_1NNN(e, opcode)
        [] OpClass(opcode) = 2 -> Op_2NNN(e, opcode)
        [] OpClass(opcode) = 3 -> Op_3XNN(e, opcode)
        [] OpClass(opcode) = 4 -> Op_4XNN(e, opcode)
        [] OpClass(opcode) = 5 -> Op_5XY0(e, opcode)
        [] OpClass(opcode) = 6 -> Op_6XNN(e, opcode)
        [] OpClass(opcode) = 7 -> Op_7XNN(e, opcode)
        [] OpClass(opcode) = 8 ->
             (CASE n = 0  -> Op_8XY0(e, opcode)
                [] n = 1  -> Op_8XY1(e, opcode)
                [] n = 2  -> Op_8XY2(e, opcode)
                [] n = 3  -> Op_8XY3(e, opcode)
                [] n = 4  -> Op_8XY4(e, opcode)
                [] n = 5  -> Op_8XY5(e, opcode)
                [] n = 6  -> Op_8XY6(e, opcode)
                [] n = 7  -> Op_8XY7(e, opcode)
                [] n = 14 -> Op_8XYE(e, opcode)
                [] OTHER  -> Op_Unknown(e, opcode))
        [] OpClass(opcode) = 9  -> Op_9XY0(e, opcode)
        [] OpClass(opcode) = 10 -> Op_ANNN(e, opcode)
        [] OpClass(opcode) = 11 -> Op_BNNN(e, opcode)
        [] OpClass(opcode) = 12 -> Op_CXNN(e, opcode, r)
        [] OpClass(opcode) = 13 -> Op_DXYN(e, opcode)
        [] OpClass(opcode) = 14 ->
             (CASE lo = 158 -> Op_EX9E(e, opcode)
                [] lo = 161 -> Op_EXA1(e, opcode)
                [] OTHER    -> Op_Unknown(e, opcode))
        [] OTHER ->
             (CASE lo = 7   -> Op_FX07(e, opcode)
                [] lo = 10  -> Op_FX0A(e, opcode)
                [] lo = 21  -> Op_FX15(e, opcode)
                [] lo = 24  -> Op_FX18(e, opcode)
                [] lo = 30  -> Op_FX1E(e, opcode)
                [] lo = 41  -> Op_FX29(e, opcode)
                [] lo = 51  -> Op_FX33(e, opcode)
                [] lo = 85  -> Op_FX55(e, opcode)
                [] lo = 101 -> Op_FX65(e, opcode)
                [] OTHER    -> Op_Unknown(e, opcode))

\* The opcodes that reach a `default:` of a secondary switch.
IsUnknown(opcode) ==
  \/ OpClass(opcode) = 0  /\ OpNN(opcode) \notin {224, 238}
  \/ OpClass(opcode) = 8  /\ OpN(opcode) \notin {0, 1, 2, 3, 4, 5, 6, 7, 14}
  \/ OpClass(opcode) = 14 /\ OpNN(opcode) \notin {158, 161}
  \/ OpClass(opcode) = 15 /\ OpNN(opcode) \notin {7, 10, 21, 24, 30, 41, 51, 85, 101}

IsWaitKey(opcode) == OpClass(opcode) = 15 /\ OpNN(opcode) = 10

\* No instruction ends the cycle before the timers.
ReturnsEarlyNever(e, opcode) == FALSE

\* FX0A's `else { return; }`: the cycle ends before the timers.
ReturnsEarly(e, opcode) == IsWaitKey(opcode) /\ ~WaitKey(e, opcode).key_pressed

\* TimerTick without the tests: --delay_timer; --sound_timer;
TimerTickWrap(e) ==
  [e EXCEPT !.delay_timer = U8(@ - 1), !.sound_timer = U8(@ - 1)]

\* if (delay_timer > 0) --delay_timer; if (sound_timer > 0) --sound_timer;
TimerTick(e) ==
  [e EXCEPT !.delay_timer = IF @ > 0 THEN @ - 1 ELSE @,
            !.sound_timer = IF @ > 0 THEN @ - 1 ELSE @]

\* Beeps in every tick that finds the sound timer running.
BeepsWhileRunning(e) == e.sound_timer > 0

\* if (sound_timer == 1) printf ("BEEP!\n")
Beeps(e) == e.sound_timer = 1

(***************************************************************************)
(* The array accesses of a cycle that fall outside the array: "none", or   *)
(* the array left.  The index arithmetic is C's: int or u32, no wrap.      *)
(***************************************************************************)
FetchFault(e) == e.program_counter + 1 >= MEMORY_SIZE

ExecFault(e, opcode) ==
  LET c  == OpClass(opcode)
      lo == OpNN(opcode)
      I  == e.index_register
  IN  CASE c = 0 /\ lo = 238 ->
             IF U16(e.stack_ptr - 1) >= STACK_SIZE THEN "stack" ELSE "none"
        [] c = 2 ->
             IF e.stack_ptr >= STACK_SIZE THEN "stack" ELSE "none"
        [] c = 13 ->
             IF \E a \in SpriteRows(e, opcode) : a >= MEMORY_SIZE THEN "memory"
             ELSE IF \E d \in DrawDests(e, opcode) : (d[2] * 64) + d[1] >= GfxSize
                  THEN "gfx" ELSE "none"
        [] c = 14 /\ lo \in {158, 161} ->
             IF e.registers[VX(opcode)] >= NUM_KEYS THEN "keys" ELSE "none"
        [] c = 15 /\ lo = 51 ->
             IF I + 2 >= MEMORY_SIZE THEN "memory" ELSE "none"
        [] c = 15 /\ lo \in {85, 101} ->
             IF I + VX(opcode) >= MEMORY_SIZE THEN "memory" ELSE "none"
        [] OTHER -> "none"

Fault(e) ==
  IF FetchFault(e) THEN "memory" ELSE ExecFault(e, Fetch(e))

\* emulation_cycle with the timer tick before the instruction.
EmulationCycleTickFirst(e, r) ==
  LET opcode == Fetch(e)
  IN  IF ReturnsEarly(e, opcode) THEN e
      ELSE Execute(TimerTick(e), opcode, r)

\* One call of emulation_cycle on a state with Fault(e) = "none".
EmulationCycle(e, r) ==
  LET opcode == Fetch(e)
  IN  IF ReturnsEarly(e, opcode) THEN e
      ELSE TimerTick(Execute(e, opcode, r))

CycleBeeps(e, r) ==
  LET opcode == Fetch(e)
  IN  ~ReturnsEarly(e, opcode) /\ Beeps(Execute(e, opcode, r))

(***************************************************************************)
(* The host: main, load_rom, handle_input and the loop.                    *)
(*   emu         struct emulator                                           *)
(*   host_pc     where main is: "load", then "input" -> "cycle" ->         *)
(*               "render" round the loop, "exit", or "undefined"           *)
(*   g__running  the loop flag                                             *)
(*   file        the rom file: whether fopen finds it, its bytes, and how  *)
(*               many of them fread delivers                               *)
(*   load_result what load_rom reported                                    *)
(*   fault       the array an access left ("none" while defined)           *)
(*   last_op     the opcode the last completed cycle fetched (-1: none)    *)
(*   pre         emu as it was when that cycle began                       *)
(*   beeped      whether that cycle printed BEEP!                          *)
(*   last_op2    the opcode of the completed cycle before that one (-1)    *)
(*   pre2_gfx    gfx as it was when the cycle before that one began        *)
(*   odd_transfer  whether some cycle so far executed a jump, call or      *)
(*               jump-with-offset whose target address is odd              *)
(*   call_log    open: for every call not yet returned from, the address   *)
(*               it was executed at and the stack pointer before it;       *)
(*               matched: the entry the last cycle's return closed         *)
(*   sound_log   set: the value the last FX18 stored in the sound timer;   *)
(*               beeps: the cycles that printed BEEP! since                *)
(*   dump_log    x, index, regs: the X, index register and registers of    *)
(*               the last FX55 (x = -1: none); intact: no cycle since has  *)
(*               changed a byte of memory[index .. index + x]              *)
(***************************************************************************)
VARIABLES emu, host_pc, g__running, file, load_result, fault, last_op, pre, beeped,
          last_op2, pre2_gfx, odd_transfer, call_log, sound_log, dump_log

vars == <<emu, host_pc, g__running, file, load_result, fault, last_op, pre, beeped,
          last_op2, pre2_gfx, odd_transfer,
                 call_log, sound_log, dump_log>>

\* Bounds of the model.
NumInputKeys == 2
MaxShortRead == 2
MaxRand == 255

\* The keypad legend of handle_input, in source order: 1 2 3 4 q w e r ...
KeyLegend == <<1, 2, 3, 12, 4, 5, 6, 13, 7, 8, 9, 14, 10, 0, 11, 15>>
\* The keys whose events the model delivers.
InputKeys == { KeyLegend[i] : i \in 1 .. NumInputKeys }
RandValues == 0 .. MaxRand

\* The bytes of a program, two per opcode, big-endian.
Asm(ops) ==
  [i \in 1 .. 2 * Len(ops) |->
     IF i % 2 = 1 THEN ops[(i + 1) \div 2] \div 256 ELSE ops[i \div 2] % 256]

\* What fread may return for a file of len bytes: all of it, or a short count.
ReadCounts(len) == {len} \cup { n \in 0 .. MaxShortRead : n < len }

\* A rom file as main may find it: absent, fully readable, or cut short.
Files(roms) ==
  { [present |-> FALSE, bytes |-> <<>>, fread |-> 0] }
  \cup UNION { { [present |-> TRUE, bytes |-> b, fread |-> n] :
                   n \in ReadCounts(Len(b)) } : b \in roms }

\* No call closed by the last cycle.
NoCall == [at |-> -1, sp |-> -1]

IsCall(opcode) == OpClass(opcode) = 2
IsReturn(opcode) == OpClass(opcode) = 0 /\ OpNN(opcode) = 238
IsSetSound(opcode) == OpClass(opcode) = 15 /\ OpNN(opcode) = 24

\* The calls still open after the cycle that executes opcode on e.
CallLog(log, e, opcode) ==
  IF IsCall(opcode)
  THEN [open |-> Append(log.open, [at |-> e.program_counter, sp |-> e.stack_ptr]),
        matched |-> NoCall]
  ELSE IF IsReturn(opcode) /\ log.open # <<>>
       THEN [open |-> SubSeq(log.open, 1, Len(log.open) - 1),
             matched |-> log.open[Len(log.open)]]
       ELSE [log EXCEPT !.matched = NoCall]

\* The beeps since the last FX18, after a cycle that executes opcode on e.
SoundLog(log, e, opcode, beep) ==
  IF IsSetSound(opcode)
  THEN [set |-> e.registers[VX(opcode)], beeps |-> IF beep THEN 1 ELSE 0]
  ELSE [log EXCEPT !.beeps = IF beep THEN @ + 1 ELSE @]

IsDump(opcode) == OpClass(opcode) = 15 /\ OpNN(opcode) = 85
IsLoad(opcode) == OpClass(opcode) = 15 /\ OpNN(opcode) = 101

\* The last register dump, after a cycle that executes opcode on e and leaves
\* the emulator as `after`.
DumpLog(log, e, after, opcode) ==
  IF IsDump(opcode)
  THEN [x |-> VX(opcode), index |-> e.index_register, regs |-> e.registers,
        intact |-> TRUE]
  ELSE [log EXCEPT !.intact =
          @ /\ \A a \in log.index .. log.index + log.x : Mem(after, a) = Mem(e, a)]

\* main up to the call of load_rom, for a rom file among `roms`.
InitWith(roms) ==
  /\ emu = InitEmu
  /\ host_pc = "load"
  /\ g__running = TRUE
  /\ file \in Files(roms)
  /\ load_result = "none"
  /\ fault = "none"
  /\ last_op = -1
  /\ pre = InitEmu
  /\ beeped = FALSE
  /\ last_op2 = -1
  /\ pre2_gfx = {}
  /\ odd_transfer = FALSE
  /\ call_log = [open |-> <<>>, matched |-> NoCall]
  /\ sound_log = [set |-> 0, beeps |-> 0]
  /\ dump_log = [x |-> -1, index |-> 0, regs |-> InitEmu.registers, intact |-> FALSE]

\* load_rom (emu, f): fread copies straight into memory[0x200 ..].
LoadRomResult(f) ==
  IF ~f.present THEN "not_found"
  ELSE IF Len(f.bytes) > available_memory THEN "too_large"
  ELSE IF f.fread # Len(f.bytes) THEN "read_error"
  ELSE "ok"

\* LoadRomEmu with rom_size recorded before the result of fread is tested.
LoadRomEmuSizeFirst(e, f) ==
  IF ~f.present \/ Len(f.bytes) > available_memory THEN e
  ELSE [e EXCEPT !.memory =
                   MemWrite(@, [a \in ROM_BASE .. ROM_BASE + f.fread - 1 |->
                                  f.bytes[a - ROM_BASE + 1]]),
                 !.rom_size = Len(f.bytes)]

LoadRomEmu(e, f) ==
  IF ~f.present \/ Len(f.bytes) > available_memory THEN e
  ELSE [e EXCEPT !.memory =
                   MemWrite(@, [a \in ROM_BASE .. ROM_BASE + f.fread - 1 |->
                                  f.bytes[a - ROM_BASE + 1]]),
                 !.rom_size = IF f.fread = Len(f.bytes) THEN Len(f.bytes) ELSE @]

\* if (!load_rom (&emu, rom)) return 1;
LoadRom ==
  /\ host_pc = "load"
  /\ emu' = LoadRomEmu(emu, file)
  /\ load_result' = LoadRomResult(file)
  /\ host_pc' = IF LoadRomResult(file) = "ok" THEN "input" ELSE "exit"
  /\ UNCHANGED <<g__running, file, fault, last_op, pre, beeped, last_op2, pre2_gfx,
                 odd_transfer,
                 call_log, sound_log, dump_log>>

\* handle_input: the pending events leave each delivered key up or down, and
\* SDL_QUIT or escape among them clears g__running.
HandleInputEmu(e, held) ==
  [e EXCEPT !.keys = [k \in 0 .. NUM_KEYS - 1 |->
                        IF k \in InputKeys THEN (IF k \in held THEN 1 ELSE 0)
                        ELSE @[k]]]

HandleInput ==
  /\ host_pc = "input"
  /\ \E held \in SUBSET InputKeys, quit \in BOOLEAN :
       /\ emu' = HandleInputEmu(emu, held)
       /\ g__running' = ~quit
  /\ host_pc' = "cycle"
  /\ UNCHANGED <<file, load_result, fault, last_op, pre, beeped, last_op2, pre2_gfx,
                 odd_transfer,
                 call_log, sound_log, dump_log>>

\* A jump (1NNN), call (2NNN) or jump-with-offset (BNNN) to an odd address.
OddTransfer(e, opcode) ==
  \/ OpClass(opcode) \in {1, 2} /\ OpNNN(opcode) % 2 = 1
  \/ OpClass(opcode) = 11 /\ (OpNNN(opcode) + e.registers[0]) % 2 = 1

\* emulation_cycle (&emu)
Cycle ==
  /\ host_pc = "cycle"
  /\ IF Fault(emu) # "none"
     THEN /\ fault' = Fault(emu)
          /\ host_pc' = "undefined"
          /\ UNCHANGED <<emu, last_op, pre, beeped, last_op2, pre2_gfx, odd_transfer,
                 call_log, sound_log, dump_log>>
     ELSE /\ \E r \in (IF OpClass(Fetch(emu)) = 12 THEN RandValues ELSE {0}) :
               /\ emu' = EmulationCycle(emu, r)
               /\ beeped' = CycleBeeps(emu, r)
               /\ sound_log' = SoundLog(sound_log, emu, Fetch(emu), CycleBeeps(emu, r))
               /\ dump_log' = DumpLog(dump_log, emu, EmulationCycle(emu, r), Fetch(emu))
          /\ call_log' = CallLog(call_log, emu, Fetch(emu))
          /\ last_op' = Fetch(emu)
          /\ pre' = emu
          /\ last_op2' = last_op
          /\ pre2_gfx' = pre.gfx
          /\ odd_transfer' = (odd_transfer \/ OddTransfer(emu, Fetch(emu)))
          /\ host_pc' = "render"
          /\ UNCHANGED fault
  /\ UNCHANGED <<g__running, file, load_result>>

\* SDL_UpdateTexture .. SDL_Delay, then the loop test; deinit on leaving.
Render ==
  /\ host_pc = "render"
  /\ host_pc' = IF g__running THEN "input" ELSE "exit"
  /\ UNCHANGED <<emu, g__running, file, load_result, fault, last_op, pre, beeped,
                 last_op2, pre2_gfx, odd_transfer,
                 call_log, sound_log, dump_log>>

Next == LoadRom \/ HandleInput \/ Cycle \/ Render

(***************************************************************************)
(* Programs.  Each family is a set of rom images; a specification runs     *)
(* main on a rom file drawn from one family.                               *)
(***************************************************************************)
Op(c, x, y, n) == (c * 4096) + (x * 256) + (y * 16) + n
OpI(c, x, nn) == (c * 4096) + (x * 256) + nn
OpA(c, nnn) == (c * 4096) + nnn

\* Secondary codes no switch recognises, in each of the classes 0, 8, E, F.
UnknownOps ==
  { OpI(0, 0, 0), OpI(0, 0, 225), OpI(0, 3, 255),
    Op(8, 0, 1, 8), Op(8, 1, 0, 15),
    OpI(14, 0, 0), OpI(14, 1, 159),
    OpI(15, 0, 0), OpI(15, 2, 8), OpI(15, 0, 255) }

\* An unknown opcode, alone and after both timers were set to v.
DecodeRoms ==
  { Asm(<<u>>) : u \in UnknownOps }
  \cup { Asm(<<OpI(6, 4, v), OpI(15, 4, 21), OpI(15, 4, 24), u>>) :
           u \in UnknownOps, v \in {0, 3} }

\* 8XY4 on registers X and Y holding a and b.
ByteSamples == {0, 1, 2, 128, 254, 255}
RegPairs == { <<0, 1>>, <<1, 0>>, <<3, 3>>, <<0, 15>>, <<15, 0>>, <<15, 15>> }

AluRoms ==
  UNION { { Asm(<<OpI(6, xy[1], a), OpI(6, xy[2], b), Op(8, xy[1], xy[2], n)>>) :
              xy \in RegPairs, a \in ByteSamples, b \in ByteSamples } :
          n \in {4, 5, 6, 7, 14} }

\* DXYN.  The program draws rows 0-1 of the sprite at (0, 0) through the zero
\* registers 2 and 3, sets registers X and Y to v and w, executes DXYN twice
\* and then jumps to itself; the sprite follows the code.
Sprite == <<255, 129, 195>>
DrawCodeLen == 2 * 7
DrawCoords == { <<0, 0>>, <<2, 1>>, <<57, 0>>, <<60, 29>>, <<70, 3>>, <<2, 31>>, <<5, 40>> }
DrawRegs == { <<0, 1>>, <<15, 1>>, <<1, 15>> }

DrawRoms ==
  { Asm(<<OpA(10, ROM_BASE + DrawCodeLen), Op(13, 2, 3, 2),
          OpI(6, xy[1], vw[1]), OpI(6, xy[2], vw[2]),
          Op(13, xy[1], xy[2], n), Op(13, xy[1], xy[2], n),
          OpA(1, ROM_BASE + DrawCodeLen - 2)>>) \o Sprite :
      xy \in DrawRegs, vw \in DrawCoords, n \in {0, 1, 3} }

\* The loader: images of the lengths round the limit, each beginning with a
\* jump to itself (12 00) and continuing with nonzero bytes.
ImageLengths == {0, 1, 2, 5, 3582, 3583, 3584}
Image(len) ==
  [i \in 1 .. len |-> CASE i = 1 -> 18 [] i = 2 -> 0 [] OTHER -> 1 + (i % 255)]
LoadRoms == { Image(len) : len \in ImageLengths }

\* FX0A reached with delay_timer = 2 and sound_timer = 1 (d = 5, s = 2), or
\* with both timers 0.
KeyRoms ==
  { Asm(<<OpI(6, 5, ds[1]), OpI(15, 5, 21), OpI(6, 4, ds[2]), OpI(15, 4, 24),
          OpI(15, x, 10)>>) :
      x \in {0, 4, 15}, ds \in { <<5, 2>>, <<0, 0>> } }

\* Control flow: jumps, calls and returns, skips, jump-with-offset.
FlowRoms ==
  { Asm(<<OpA(1, t)>>) : t \in {512, 514, 515} }
  \cup { Asm(<<OpA(2, t), OpA(1, 514), 0, OpI(0, 0, 238), OpI(0, 0, 238)>>) :
           t \in {518, 519} }
  \cup { Asm(<<OpI(6, 0, v), OpA(11, t)>>) : v \in {0, 1, 2}, t \in {516, 517} }
  \cup { Asm(<<OpI(6, 0, a), OpI(c, 0, b)>>) : a \in {0, 1}, b \in {0, 1}, c \in {3, 4} }
  \cup { Asm(<<OpI(6, 0, a), OpI(6, 1, b), Op(c, 0, 1, 0)>>) :
           a \in {0, 1}, b \in {0, 1}, c \in {5, 9} }
  \cup { Asm(<<OpI(6, 0, k), OpI(14, 0, lo)>>) : k \in {1, 2, 16}, lo \in {158, 161} }
  \cup { Asm(<<OpI(0, 0, 238)>>), Asm(<<OpA(2, 512)>>), Asm(<<OpI(0, 0, 224)>>) }

\* Nested calls: the main program calls subroutine 1 and then jumps to
\* itself; subroutine i calls subroutine i + 1 and returns; the last one only
\* returns.  `depth` calls are open at the deepest point.
SubAddr(i) == ROM_BASE + 4 * i
NestedOps(depth) ==
  [k \in 1 .. 2 * depth + 1 |->
     CASE k = 1             -> OpA(2, SubAddr(1))
       [] k = 2             -> OpA(1, ROM_BASE + 2)
       [] k = 2 * depth + 1 -> OpI(0, 0, 238)
       [] k % 2 = 1         -> OpA(2, SubAddr((k + 1) \div 2))
       [] OTHER             -> OpI(0, 0, 238)]
CallRoms == { Asm(NestedOps(depth)) : depth \in {1, 2, STACK_SIZE} }

\* Timers: delay_timer = d and sound_timer = s are set, then the program
\* jumps to itself, or skips and runs into an unknown opcode.
TimerValues == { <<3, 2>>, <<0, 1>>, <<2, 0>>, <<1, 3>>, <<255, 4>> }
TimerRoms ==
  { Asm(<<OpI(6, 0, ds[1]), OpI(15, 0, 21), OpI(6, 1, ds[2]), OpI(15, 1, 24)>>
        \o tail) :
      ds \in TimerValues, tail \in { <<OpA(1, ROM_BASE + 8)>>, <<OpI(3, 0, 0), 0>> } }

\* FX1E with index_register = i and register X = v.
IndexRoms ==
  { Asm(<<OpA(10, iv[1]), OpI(6, x, iv[2]), OpI(15, x, 30)>>) :
      x \in {0, 15},
      iv \in { <<4094, 5>>, <<4090, 5>>, <<4095, 0>>, <<4095, 1>>, <<0, 255>>, <<3841, 255>> } }

\* 00E0 after the digit 0 of the font was drawn; DXYN of an all-zero sprite.
ClearRoms ==
  { Asm(<<OpI(6, 0, 0), OpI(15, 0, 41), Op(13, 0, 0, 5), OpI(0, 0, 224)>>),
    Asm(<<Op(13, 0, 0, 5)>>) }

\* 7XNN on register X = a with register 0xF holding f.
AddImmRoms ==
  { Asm(<<OpI(6, 15, f), OpI(6, x, a), OpI(7, x, nn)>>) :
      f \in {0, 1}, x \in {0, 3}, a \in {255, 1, 128}, nn \in {1, 0, 255, 128} }

\* FX55 at index i with registers 0..2 = 17, 34, 51; then registers 0, 1, 2
\* and 14 are overwritten (and, in one variant, FX33 writes memory[i .. i+2]);
\* then FX65.
DumpRoms ==
  { Asm(<<OpI(6, 0, 17), OpI(6, 1, 34), OpI(6, 2, 51), OpA(10, i), OpI(15, x, 85)>>
        \o between \o <<OpI(15, x, 101)>>) :
      i \in {768, 4093}, x \in {0, 2, 15},
      between \in { <<OpI(6, 0, 7), OpI(6, 1, 8), OpI(6, 2, 9), OpI(6, 14, 10)>>,
                     <<OpI(6, 0, 7), OpI(15, 0, 51)>> } }

\* CXNN with mask nn, into register x.
RandRoms ==
  { Asm(<<OpI(12, x, nn)>>) : x \in {0, 15}, nn \in {255, 15, 165, 0} }

\* Accesses through a program counter or index register at the end of memory:
\* a jump or a jump-with-offset to 0xFFF and beyond, FX33, FX55, FX65 and DXYN
\* with the index register at 0xFFE, and the same after FX1E has pushed the
\* index register to 0x1003.
EdgeRoms ==
  { Asm(<<OpA(1, 4095)>>), Asm(<<OpA(1, 4094)>>),
    Asm(<<OpI(6, 0, 255), OpA(11, 4095)>>) }
  \cup { Asm(<<OpA(10, 4094), access>>) :
           access \in { OpI(15, 0, 51), OpI(15, 2, 85), OpI(15, 2, 101),
                         Op(13, 0, 0, 3), OpI(15, 1, 85) } }
  \cup { Asm(<<OpA(10, 4094), OpI(6, 0, 5), OpI(15, 0, 30), access>>) :
           access \in { OpI(15, 0, 51), OpI(15, 0, 85), OpI(15, 0, 101),
                         Op(13, 1, 1, 1) } }

\* FX15 with register 0 = v, then FX07 into register 1.
DelayRoms ==
  { Asm(<<OpI(6, 0, v), OpI(15, 0, 21), OpI(15, 1, 7)>>) : v \in {0, 1, 2, 255} }

Roms ==
  DecodeRoms \cup AluRoms \cup DrawRoms \cup LoadRoms \cup KeyRoms \cup FlowRoms
  \cup CallRoms \cup TimerRoms \cup IndexRoms \cup ClearRoms \cup AddImmRoms
  \cup DumpRoms \cup RandRoms \cup EdgeRoms \cup DelayRoms

Init == InitWith(Roms)
Spec == Init /\ [][Next]_vars

(***************************************************************************)
(* Claims.  After a completed cycle, last_op is the opcode it executed,    *)
(* pre the emulator before it and emu the emulator after it.               *)
(***************************************************************************)
Cycled == last_op # -1

\* emulation_cycle has just returned: pre is the state it was called in.
JustCycled == Cycled /\ host_pc = "render"

\* C1: an instruction word whose secondary code is not recognised (classes
\* 0x0, 0x8, 0xE, 0xF) acts as a no-op that advances the program counter by
\* exactly 2: after a cycle that executed one, the program counter is 2 past
\* where it was and nothing but the timers changed.
C1_UnknownAdvancesPc ==
  (JustCycled /\ IsUnknown(last_op)) =>
     emu = Advance(TimerTick(pre), 2)

\* C2: register-to-register add (8XY4) with X different from 0xF leaves
\* register X = (VX + VY) mod 256 and register 0xF = 1 exactly when the true
\* sum exceeds 255, else 0.
C2_AddCarry ==
  (Cycled /\ OpClass(last_op) = 8 /\ OpN(last_op) = 4 /\ VX(last_op) # 15) =>
     LET vx == pre.registers[VX(last_op)]
         vy == pre.registers[VY(last_op)]
     IN  /\ emu.registers[VX(last_op)] = (vx + vy) % 256
         /\ emu.registers[15] = (IF vx + vy > 255 THEN 1 ELSE 0)

IsDraw(opcode) == OpClass(opcode) = 13

\* C3: during draw-sprite (DXYN) every framebuffer cell that is read or
\* toggled has column in 0..63 and row in 0..31, for every value of registers
\* X and Y and every height N, and no state outside the 2048-cell framebuffer
\* is written: no draw leaves gfx, and every destination of a completed draw
\* lies in the grid.
C3_DrawStaysInGrid ==
  /\ fault # "gfx"
  /\ (Cycled /\ IsDraw(last_op)) =>
        \A d \in DrawDests(pre, last_op) :
           /\ d[1] \in 0 .. RENDER_BUFFER_WIDTH - 1
           /\ d[2] \in 0 .. RENDER_BUFFER_HEIGHT - 1

\* The emulator e with registers X and Y of the opcode reduced modulo the
\* framebuffer's width and height.
WithWrappedStart(e, opcode) ==
  [e EXCEPT !.registers =
     [r \in 0 .. 15 |->
        IF r = VY(opcode) THEN e.registers[r] % RENDER_BUFFER_HEIGHT
        ELSE IF r = VX(opcode) THEN e.registers[r] % RENDER_BUFFER_WIDTH
        ELSE e.registers[r]]]

\* C4: draw-sprite takes its start coordinates modulo the framebuffer size:
\* a draw with (v, w) in registers X and Y toggles exactly the cells, and
\* gives the collision flag, of a draw with (v mod 64, w mod 32) from the
\* same prior state.
C4_DrawWrapsStart ==
  (Cycled /\ IsDraw(last_op) /\ VX(last_op) # VY(last_op)
     /\ ExecFault(WithWrappedStart(pre, last_op), last_op) = "none") =>
     LET wrapped == Op_DXYN(WithWrappedStart(pre, last_op), last_op)
     IN  /\ emu.gfx = wrapped.gfx
         /\ emu.registers[15] = wrapped.registers[15]

\* How many set sprite bits of the draw land on cell c.
Hits(e, opcode, c) ==
  Cardinality({ xy \in (0 .. SPRITE_WIDTH - 1) \X (0 .. OpN(opcode) - 1) :
                  /\ SpriteCol(e, xy[1], xy[2]) # 0
                  /\ DestPixel(e.registers[VX(opcode)], e.registers[VY(opcode)],
                               xy[1], xy[2]) = c })

\* 1 when some toggle of the draw, made from framebuffer e.gfx, finds its cell
\* set: the cell was set before the draw, or the draw itself toggles it twice.
PassFlag(e, opcode) ==
  IF \E d \in DrawDests(e, opcode) :
        LET c == (d[2] * 64) + d[1]
        IN  c \in e.gfx \/ Hits(e, opcode, c) >= 2
  THEN 1 ELSE 0

\* Two cycles in succession executed the identical DXYN instruction.
DrewTwice == Cycled /\ IsDraw(last_op) /\ last_op2 = last_op

\* C5 as claimed: drawing the identical sprite with the identical DXYN twice
\* in succession restores every framebuffer cell to its value before the first
\* draw, for every X and Y in 0x0..0xF including 0xF, and the collision flag
\* after the second draw reflects only the second pass.
C5_DoubleDrawRestoresAnyXY ==
  DrewTwice =>
     /\ emu.gfx = pre2_gfx
     /\ emu.registers[15] = PassFlag(pre, last_op)

\* C5 as amended: the same, for X and Y in 0x0..0xE.  (With X or Y = 0xF the
\* first draw overwrites its own coordinate with the collision flag.)
C5_DoubleDrawRestores ==
  (DrewTwice /\ VX(last_op) # 15 /\ VY(last_op) # 15) =>
     /\ emu.gfx = pre2_gfx
     /\ emu.registers[15] = PassFlag(pre, last_op)

\* A double draw of a sprite with set bits over a framebuffer that was not
\* empty: the first pass changed it, the second restored it and collided.
C5_Witness ==
  /\ DrewTwice /\ VX(last_op) # 15 /\ VY(last_op) # 15
  /\ pre2_gfx # {}
  /\ pre.gfx # pre2_gfx
  /\ emu.gfx = pre2_gfx
  /\ emu.registers[15] = 1

LoadFailed == load_result \in {"not_found", "too_large", "read_error"}

\* C6 as claimed: whenever load_rom fails (image too large, file missing, or
\* a short read), memory and every other machine-state field are identical to
\* their values before the call.
C6_FailedLoadMutatesNothing == LoadFailed => emu = InitEmu

\* C6 as amended: whenever load_rom fails, every field other than memory is
\* unchanged; memory is unchanged outside [0x200, 0x200 + k), where k is the
\* number of bytes a short read delivered (k = 0 for a missing or too large
\* file), and those k bytes hold the first k bytes of the image.
C6_FailedLoadWritesOnlyPrefix ==
  LoadFailed =>
     LET k == IF load_result = "read_error" THEN file.fread ELSE 0
     IN  /\ [emu EXCEPT !.memory = InitEmu.memory] = InitEmu
         /\ \A a \in 0 .. MEMORY_SIZE - 1 :
               Mem(emu, a) = IF a >= ROM_BASE /\ a < ROM_BASE + k
                             THEN file.bytes[a - ROM_BASE + 1]
                             ELSE Mem(InitEmu, a)

\* A short read that left two bytes of the image in memory.
C6_Witness ==
  /\ load_result = "read_error"
  /\ file.fread = 2
  /\ Mem(emu, ROM_BASE) # 0
  /\ emu.rom_size = 0

\* C7: for an image of length L that is fully readable: if L <= 3583 the
\* loader succeeds, memory[0x200 .. 0x200+L) equals the image bytes, the length
\* is recorded, and memory outside that range (the font table included) and
\* all other fields keep their initialised values when load_rom returns; if
\* L > 3583 the loader fails with the too-large outcome.
C7_LoaderCommitsImage ==
  (host_pc # "load" /\ file.present /\ file.fread = Len(file.bytes)) =>
     IF Len(file.bytes) <= 3583
     THEN /\ load_result = "ok"
          /\ (host_pc = "input" /\ ~Cycled) =>
                /\ emu.rom_size = Len(file.bytes)
                /\ [emu EXCEPT !.memory = InitEmu.memory, !.rom_size = 0] = InitEmu
                /\ \A a \in 0 .. MEMORY_SIZE - 1 :
                      Mem(emu, a) =
                         IF a >= ROM_BASE /\ a < ROM_BASE + Len(file.bytes)
                         THEN file.bytes[a - ROM_BASE + 1]
                         ELSE Mem(InitEmu, a)
     ELSE load_result = "too_large"

\* load_rom has just returned after loading an image of exactly 3583 bytes.
C7_Witness ==
  /\ host_pc = "input" /\ ~Cycled
  /\ load_result = "ok"
  /\ Len(file.bytes) = 3583
  /\ emu.rom_size = 3583
  /\ Mem(emu, ROM_BASE + 3582) = file.bytes[3583]

HeldKeys(e) == { k \in 0 .. NUM_KEYS - 1 : e.keys[k] # 0 }

HighestKey(e) == CHOOSE m \in HeldKeys(e) : \A k \in HeldKeys(e) : k <= m

\* C8: key-wait (FX0A) leaves the program counter at the same address while
\* no key is held; when one or more keys are held during the cycle it
\* advances the program counter by 2 with register X holding the
\* highest-numbered held key.
C8_WaitKeyHighestHeld ==
  (Cycled /\ IsWaitKey(last_op)) =>
     IF HeldKeys(pre) = {}
     THEN emu.program_counter = pre.program_counter
     ELSE /\ emu.program_counter = U16(pre.program_counter + 2)
          /\ emu.registers[VX(last_op)] = HighestKey(pre)

\* The wait spun for a cycle, then two keys were held and the higher one was
\* stored.
C8_Witness ==
  /\ Cycled /\ IsWaitKey(last_op) /\ last_op2 = last_op
  /\ HeldKeys(pre) = {1, 2}
  /\ emu.registers[VX(last_op)] = 2
  /\ emu.program_counter = pre.program_counter + 2

\* C9: a cycle executing key-wait (FX0A) with no key held changes nothing:
\* the program counter and registers are unchanged, the delay and sound
\* timers are not decremented, and no beep is emitted.
C9_WaitKeyIdleChangesNothing ==
  (JustCycled /\ IsWaitKey(last_op) /\ HeldKeys(pre) = {}) =>
     /\ emu = pre
     /\ ~beeped

\* An idle wait with both timers running and the sound timer at 1, where any
\* other instruction would have ticked them and beeped.
C9_Witness ==
  /\ JustCycled /\ IsWaitKey(last_op) /\ HeldKeys(pre) = {}
  /\ emu = pre
  /\ pre.delay_timer = 2 /\ pre.sound_timer = 1
  /\ emu.delay_timer = 2 /\ emu.sound_timer = 1
  /\ ~beeped

\* C10 as claimed: the program counter is even in every reachable state.
C10_PcAlwaysEven == emu.program_counter % 2 = 0

\* C10 as amended: the program counter is even in every state of a run that
\* has executed no jump (1NNN), call (2NNN) or offset jump (BNNN) to an odd
\* address and has made no out-of-bounds access.
C10_PcEvenWithoutOddTransfer ==
  (~odd_transfer /\ host_pc # "undefined") => emu.program_counter % 2 = 0

\* A subroutine called at 0x200 has returned to 0x202.
C10_Witness ==
  /\ Cycled /\ last_op = 238
  /\ ~odd_transfer
  /\ emu.program_counter = ROM_BASE + 2

\* C11: the stack pointer never exceeds 16 and never goes below 0, and every
\* call and return accesses a stack slot with index in 0..15, for every
\* program, including more than 16 nested calls and a return with an empty
\* stack.
C11_StackInBounds ==
  /\ fault # "stack"
  /\ emu.stack_ptr \in 0 .. STACK_SIZE

\* C12: call and return are a LIFO round trip: a call NNN executed at address
\* A sets the program counter to NNN and pushes A; after the matching return
\* (calls and returns balanced in between, nesting depth at most 16) the
\* program counter is A + 2 and the stack pointer equals its value before the
\* call.
C12_CallReturnRoundTrip ==
  /\ (Cycled /\ IsCall(last_op)) =>
        /\ emu.program_counter = OpNNN(last_op)
        /\ emu.stack[pre.stack_ptr] = pre.program_counter
        /\ emu.stack_ptr = pre.stack_ptr + 1
  /\ (Cycled /\ IsReturn(last_op) /\ call_log.matched # NoCall) =>
        /\ emu.program_counter = call_log.matched.at + 2
        /\ emu.stack_ptr = call_log.matched.sp

\* The outermost call of the 16-deep program has returned to 0x202, after 15
\* nested calls and their returns in between.
C12_Witness ==
  /\ Cycled /\ IsReturn(last_op)
  /\ Mem(emu, SubAddr(STACK_SIZE) + 1) = 238
  /\ call_log.matched = [at |-> ROM_BASE, sp |-> 0]
  /\ call_log.open = <<>>
  /\ emu.program_counter = ROM_BASE + 2
  /\ emu.stack_ptr = 0

\* C13: once the redraw flag has been set by a framebuffer mutation, the
\* render step of the host loop clears it after copying the buffer out, so
\* the flag is false whenever the loop is about to run the next cycle.
C13_RenderClearsRedrawFlag ==
  (host_pc \in {"input", "cycle"}) => ~emu.draw_flag

IsSetDelay(opcode) == OpClass(opcode) = 15 /\ OpNN(opcode) = 21

\* The cycle on e ran its instruction to the end (it was not a key-wait that
\* found no key).
Completes(e, opcode) == ~(IsWaitKey(opcode) /\ HeldKeys(e) = {})

\* The timers after the instruction's own effect, before the tick.
DelayAfterOp(e, opcode) ==
  IF IsSetDelay(opcode) THEN e.registers[VX(opcode)] ELSE e.delay_timer
SoundAfterOp(e, opcode) ==
  IF IsSetSound(opcode) THEN e.registers[VX(opcode)] ELSE e.sound_timer

FlooredDecrement(t) == IF t - 1 > 0 THEN t - 1 ELSE 0

\* C14: in every cycle in which an instruction executes to completion,
\* whatever the instruction (unknown opcodes, jumps and skips included), each
\* of the two timers ends the cycle at max(0, t - 1), where t is its value
\* after the instruction's own effect; a timer at 0 stays 0 and never wraps to
\* 255, and the two timers are decremented independently.
C14_TimersTickEveryCycle ==
  (Cycled /\ Completes(pre, last_op)) =>
     /\ emu.delay_timer = FlooredDecrement(DelayAfterOp(pre, last_op))
     /\ emu.sound_timer = FlooredDecrement(SoundAfterOp(pre, last_op))

\* An unknown opcode executed with the delay timer running and the sound timer
\* at 0: the one went down by one, the other stayed 0.
C14_Witness ==
  /\ Cycled /\ IsUnknown(last_op)
  /\ pre.delay_timer > 1 /\ pre.sound_timer = 0
  /\ emu.delay_timer = pre.delay_timer - 1
  /\ emu.sound_timer = 0

\* C15: a beep is emitted in a cycle exactly when the sound timer is 1 at the
\* tick of that cycle; consequently each countdown of the sound timer from a
\* nonzero value to 0 without an intervening FX18 emits exactly one beep, and
\* no beep is emitted while the sound timer is 0 or greater than 1.
C15_BeepOncePerCountdown ==
  /\ Cycled => (beeped <=> (Completes(pre, last_op) /\ SoundAfterOp(pre, last_op) = 1))
  /\ sound_log.beeps = (IF sound_log.set > 0 /\ emu.sound_timer = 0 THEN 1 ELSE 0)

\* The sound timer was set to 4 and has counted down to 0; the one beep was
\* emitted in an earlier cycle than the last.
C15_Witness ==
  /\ Cycled /\ ~beeped
  /\ sound_log = [set |-> 4, beeps |-> 1]
  /\ pre.sound_timer = 0
  /\ emu.sound_timer = 0

IsSub(opcode) == OpClass(opcode) = 8 /\ OpN(opcode) = 5

\* C16: register-to-register subtract (8XY5) with X different from 0xF leaves
\* register X = (VX - VY) mod 256 and register 0xF = 0 when a borrow occurred
\* (VY > VX) and 1 otherwise.
C16_SubBorrow ==
  (Cycled /\ IsSub(last_op) /\ VX(last_op) # 15) =>
     LET vx == pre.registers[VX(last_op)]
         vy == pre.registers[VY(last_op)]
     IN  /\ emu.registers[VX(last_op)] = ((vx + 256) - vy) % 256
         /\ emu.registers[15] = (IF vy > vx THEN 0 ELSE 1)

\* 0x01 - 0x02 wrapped to 0xFF with the flag at 0.
C16_Witness ==
  /\ Cycled /\ IsSub(last_op) /\ VX(last_op) # 15 /\ VY(last_op) # 15
  /\ pre.registers[VX(last_op)] = 1
  /\ pre.registers[VY(last_op)] = 2
  /\ emu.registers[VX(last_op)] = 255
  /\ emu.registers[15] = 0

IsAddIndex(opcode) == OpClass(opcode) = 15 /\ OpNN(opcode) = 30

IsClear(opcode) == opcode = 224

\* C18: clear-screen (00E0), from any prior framebuffer contents, leaves all
\* 2048 framebuffer cells zero, sets the redraw flag, advances the program
\* counter by 2, and leaves memory, registers, index register, stack and stack
\* pointer unchanged.
C18_ClearScreen ==
  (Cycled /\ IsClear(last_op)) =>
     /\ emu.gfx = {}
     /\ emu.draw_flag
     /\ emu.program_counter = pre.program_counter + 2
     /\ emu.memory = pre.memory
     /\ emu.registers = pre.registers
     /\ emu.index_register = pre.index_register
     /\ emu.stack = pre.stack
     /\ emu.stack_ptr = pre.stack_ptr

\* The screen was cleared while the digit 0 of the font was on its first rows.
C18_Witness ==
  /\ Cycled /\ IsClear(last_op)
  /\ {0, 1, 2, 3, 64, 67} \subseteq pre.gfx
  /\ emu.gfx = {}
  /\ emu.draw_flag

IsAddImm(opcode) == OpClass(opcode) = 7

\* C19: add-immediate (7XNN) with X different from 0xF leaves register
\* X = (VX + NN) mod 256 and leaves register 0xF and every other register
\* unchanged.
C19_AddImmediateNoFlag ==
  (Cycled /\ IsAddImm(last_op) /\ VX(last_op) # 15) =>
     \A r \in 0 .. 15 :
        emu.registers[r] =
           IF r = VX(last_op)
           THEN (pre.registers[r] + OpNN(last_op)) % 256
           ELSE pre.registers[r]

\* 0xFF + 0x01 wrapped to 0x00 with register 0xF left at 0.
C19_Witness ==
  /\ Cycled /\ IsAddImm(last_op) /\ VX(last_op) # 15
  /\ pre.registers[VX(last_op)] = 255 /\ OpNN(last_op) = 1
  /\ pre.registers[15] = 0
  /\ emu.registers[VX(last_op)] = 0
  /\ emu.registers[15] = 0

\* C20: after draw-sprite, register 0xF is 1 exactly when at least one toggle
\* performed by that draw turned a set framebuffer cell into an unset one, and
\* 0 otherwise (N = 0 and an all-zero sprite included); the redraw flag is set
\* and the program counter advances by 2 in every case.
C20_DrawCollisionFlag ==
  (Cycled /\ IsDraw(last_op)) =>
     /\ emu.registers[15] = PassFlag(pre, last_op)
     /\ emu.draw_flag
     /\ emu.program_counter = pre.program_counter + 2

\* A first draw over cells that were set: some went out, the flag is 1.
C20_Witness ==
  /\ Cycled /\ IsDraw(last_op) /\ last_op2 # last_op
  /\ OpN(last_op) > 0
  /\ \E c \in pre.gfx : c \notin emu.gfx
  /\ emu.registers[15] = 1
  /\ emu.draw_flag

IsFlagOp(opcode) == OpClass(opcode) = 8 /\ OpN(opcode) \in {4, 5, 6, 7, 14}

\* The carry, not-borrow or shifted-out bit of a flag-producing 8XYN, from the
\* operand values vx and vy before the instruction.
FlagOf(n, vx, vy) ==
  CASE n = 4  -> IF vx + vy > 255 THEN 1 ELSE 0
    [] n = 5  -> IF vx >= vy THEN 1 ELSE 0
    [] n = 7  -> IF vy >= vx THEN 1 ELSE 0
    [] n = 6  -> vx % 2
    [] OTHER  -> vx \div 128

\* C21: after any flag-producing register-to-register op (8XY4, 8XY5, 8XY7,
\* 8XY6, 8XYE), register 0xF holds that instruction's carry / not-borrow /
\* shifted-out bit, computed from the operand values before the instruction,
\* for every X and Y in 0x0..0xF, X = 0xF included.
C21_FlagRegisterHoldsFlag ==
  (Cycled /\ IsFlagOp(last_op)) =>
     emu.registers[15] = FlagOf(OpN(last_op), pre.registers[VX(last_op)],
                                pre.registers[VY(last_op)])

\* C22: register-dump (FX55) followed by register-load (FX65) with the same X
\* and the same index register restores registers 0..X to the values they had
\* at the dump, whatever was written to them in between, provided
\* memory[I .. I+X] is not written in between; both instructions leave the
\* index register unmodified, dump changes no memory byte outside [I, I+X],
\* and load changes no register with index above X.
C22_DumpLoadRoundTrip ==
  /\ (Cycled /\ IsDump(last_op)) =>
        LET I == pre.index_register
        IN  /\ emu.index_register = I
            /\ \A a \in 0 .. MEMORY_SIZE - 1 :
                  Mem(emu, a) = IF a >= I /\ a <= I + VX(last_op)
                                THEN pre.registers[a - I]
                                ELSE Mem(pre, a)
  /\ (Cycled /\ IsLoad(last_op)) =>
        /\ emu.index_register = pre.index_register
        /\ \A r \in 0 .. 15 : r > VX(last_op) => emu.registers[r] = pre.registers[r]
        /\ (dump_log.intact /\ dump_log.x = VX(last_op)
              /\ dump_log.index = pre.index_register) =>
              \A r \in 0 .. VX(last_op) : emu.registers[r] = dump_log.regs[r]

\* Registers 0..2 were dumped as 17, 34, 51, overwritten with 7, 8, 9, and
\* loaded back; register 14, above X, kept the 10 written in between.
C22_Witness ==
  /\ Cycled /\ IsLoad(last_op) /\ VX(last_op) = 2
  /\ dump_log.intact /\ dump_log.x = 2 /\ dump_log.index = pre.index_register
  /\ pre.registers[0] = 7 /\ pre.registers[1] = 8 /\ pre.registers[2] = 9
  /\ emu.registers[0] = 17 /\ emu.registers[1] = 34 /\ emu.registers[2] = 51
  /\ emu.registers[14] = 10

IsRandom(opcode) == OpClass(opcode) = 12

\* The values CXNN can leave in register X, over what rand () can return.
RandomResults(e, opcode) ==
  { Op_CXNN(e, opcode, r).registers[VX(opcode)] : r \in RandValues }

\* C23: random-and (CXNN) sets register X to r AND NN where r ranges over
\* every byte value 0..255: for NN = 0xFF each of the 256 values 0x00..0xFF
\* (0xFF included) is a possible result, and for every NN the result has no
\* bit set outside NN.
C23_RandomCoversEveryByte ==
  (Cycled /\ IsRandom(last_op)) =>
     /\ BitAnd(emu.registers[VX(last_op)], OpNN(last_op)) = emu.registers[VX(last_op)]
     /\ RandomResults(pre, last_op) = { BitAnd(b, OpNN(last_op)) : b \in 0 .. 255 }

\* C24: every memory access made by a cycle uses an address inside the
\* 4096-byte memory: the two-byte fetch at the program counter and program
\* counter + 1, and every read or write through the index register (sprite
\* rows, store-BCD, register-dump, register-load), in every reachable state.
C24_MemoryAccessInBounds == fault # "memory"

IsGetDelay(opcode) == OpClass(opcode) = 15 /\ OpNN(opcode) = 7

\* C25: because the timer tick runs at the end of the same cycle that sets a
\* timer, FX15 with register X = v leaves the delay timer at max(0, v - 1)
\* when its cycle ends, and an FX07 executed in the very next cycle reads
\* max(0, v - 1), never v for v > 0; likewise FX18 with v = 1 emits the beep
\* in that same cycle.
C25_SetTimerTicksSameCycle ==
  /\ (Cycled /\ IsSetDelay(last_op)) =>
        emu.delay_timer = FlooredDecrement(pre.registers[VX(last_op)])
  /\ (Cycled /\ IsGetDelay(last_op) /\ IsSetDelay(last_op2)) =>
        emu.registers[VX(last_op)] = FlooredDecrement(pre.registers[VX(last_op2)])
  /\ (Cycled /\ IsSetSound(last_op) /\ pre.registers[VX(last_op)] = 1) =>
        beeped /\ emu.sound_timer = 0

\* FX15 stored 255 and the FX07 of the next cycle read 254.
C25_Witness ==
  /\ Cycled /\ IsGetDelay(last_op) /\ IsSetDelay(last_op2)
  /\ VX(last_op) # VX(last_op2)
  /\ pre.registers[VX(last_op2)] = 255
  /\ pre.delay_timer = 254
  /\ emu.registers[VX(last_op)] = 254

=============================================================================
